---- MODULE Spec2Model ----
(***************************************************************************)
(* A model of geodiff-rs (src/src/main.rs): a HashMap-backed collection of *)
(* type-erased geometry nodes (Point3, Rectangle), its serde_json/typetag  *)
(* snapshot, and the treediff of two snapshots.                            *)
(*                                                                         *)
(* f64 values are pairs <<class, n>>: <<"fin", n>> is the finite number n, *)
(* <<"nan", 0>> and <<"inf", 0>> are the non-finite ones.  JSON values are  *)
(* records tagged by t: null, num, str, obj (an object's members are the    *)
(* function m from keys to JSON values).                                   *)
(***************************************************************************)
EXTENDS Integers, Sequences, FiniteSets, TLC

VARIABLES
    nodes,          \* the NodeCollection operated on (main's nodes, then deser)
    naive,          \* the earlier of the two snapshots last taken
    optimized,      \* the later one
    d,              \* Recorder.calls of the diff of the two snapshots
    last,           \* the operation last performed, with what it returned
    ops,            \* the number of collection operations performed
    naive_src,      \* the collection naive was taken of
    optimized_src,  \* the collection optimized was taken of
    pending,        \* the operations called since the later snapshot
    log,            \* the operations called between the two snapshots
    panicked        \* an unwrap() met an Err: the process has aborted

vars == <<nodes, naive, optimized, d, last, ops, naive_src, optimized_src, pending, log,
          panicked>>

\* The number of collection operations one run performs.
MaxOps == 2

(***************************** values *************************************)

Fin(n) == <<"fin", n>>
NaN == <<"nan", 0>>
Inf == <<"inf", 0>>

\* The literals of main().
RectWidth == 10
RectHeight == 20
NewX == 50
NewY == 100

\* The f64 values a caller writes through a typed mutable reference.
F64In == {Fin(NewX), NaN, Inf}
XYIn == {<<Fin(NewX), Fin(NewY)>>, <<NaN, Fin(NewY)>>}

\* Identifiers of stored nodes, and of the anchors Rectangle::new() creates.
NodeIds == {"u1", "u2"}
AnchorIds == {"a1", "a2"}
Uuids == NodeIds \cup AnchorIds
AnchorIdOf(u) == IF u = "u1" THEN "a1" ELSE "a2"

None == [some |-> FALSE]
Some(v) == [some |-> TRUE, v |-> v]

Types == {"Point3", "Rectangle"}

\* Point3::new() with the generated identifier u.
NewPoint3(u) ==
    [type |-> "Point3", x |-> Fin(0), y |-> Fin(0), z |-> Fin(0), uuid |-> u]

\* Rectangle::new() with the generated identifiers a (anchor) and u.
NewRectangle(a, u) ==
    [type |-> "Rectangle", anchor |-> NewPoint3(a),
     width |-> Fin(0), height |-> Fin(0), uuid |-> u]

\* main(): a new rectangle with width and height set before it is pushed.
MainRect(a, u) ==
    [NewRectangle(a, u) EXCEPT !.width = Fin(RectWidth), !.height = Fin(RectHeight)]

\* The points a caller holds by value (Point3 is Copy).
PointInputs == {NewPoint3(u) : u \in NodeIds}

\* The nodes a caller pushes.
NodeInputs ==
    PointInputs
    \cup {MainRect(AnchorIdOf(u), u) : u \in NodeIds}

\* GeometryNode::uuid
uuid(node) == node.uuid

EmptyMap == [k \in {} |-> None]

(************************** NodeCollection ********************************)

\* NodeCollection::new
new == EmptyMap

\* HashMap::insert
insert(c, k, node) == [x \in DOMAIN c \cup {k} |-> IF x = k THEN node ELSE c[x]]

\* push that keeps an entry already stored under the node's identifier.
push_if_absent(c, node) ==
    IF uuid(node) \in DOMAIN c THEN c ELSE insert(c, uuid(node), node)

\* NodeCollection::push
push(c, node) == insert(c, uuid(node), node)

\* remove that hands the node out and leaves its entry in the map.
remove_keep(c, key) ==
    IF key \in DOMAIN c THEN [c |-> c, ret |-> Some(c[key])] ELSE [c |-> c, ret |-> None]

\* NodeCollection::remove: the collection left and the node returned.
remove(c, key) ==
    IF key \in DOMAIN c
    THEN [c |-> [x \in DOMAIN c \ {key} |-> c[x]], ret |-> Some(c[key])]
    ELSE [c |-> c, ret |-> None]

\* A narrowing that does not compare type ids (a raw cast).
concrete_node_unchecked(T, node) == Some(node)

\* concrete_node / concrete_node_mut: Any::downcast_ref compares type ids.
concrete_node(T, node) == IF node.type = T THEN Some(node) ELSE None

\* NodeCollection::try_get_typed
try_get_typed(c, T, key) ==
    IF key \in DOMAIN c THEN concrete_node(T, c[key]) ELSE None

\* NodeCollection::try_get_typed_mut: the same lookup, by mutable reference.
try_get_typed_mut(c, T, key) ==
    IF key \in DOMAIN c THEN concrete_node(T, c[key]) ELSE None

(************************ serde_json / typetag ****************************)

JNull == [t |-> "null"]
JNum(n) == [t |-> "num", n |-> n]
JStr(str) == [t |-> "str", s |-> str]
JObj(members) == [t |-> "obj", m |-> members]

IsObj(j) == j.t = "obj"
Has(j, k) == IsObj(j) /\ k \in DOMAIN j.m

\* serde_json renders a finite f64 as a number and a non-finite one as null.
to_value_f64(f) == IF f[1] = "fin" THEN JNum(f[2]) ELSE JNull

\* Uuid serializes as its string form.
to_value_uuid(u) == JStr(u)

\* Point3 serialized without its identifier.
to_value_Point3_no_uuid(p) ==
    JObj([k \in {"x", "y", "z"} |-> to_value_f64(p[k])])

\* #[derive(Serialize)] struct Point3
to_value_Point3(p) ==
    JObj([k \in {"x", "y", "z", "uuid"} |->
            IF k = "uuid" THEN to_value_uuid(p.uuid) ELSE to_value_f64(p[k])])

\* #[derive(Serialize)] struct Rectangle
to_value_Rectangle(r) ==
    JObj([k \in {"anchor", "width", "height", "uuid"} |->
            IF k = "anchor" THEN to_value_Point3(r.anchor)
            ELSE IF k = "uuid" THEN to_value_uuid(r.uuid)
            ELSE to_value_f64(r[k])])

\* The discriminator key of #[typetag::serde(tag = "geometry_node")].
TagKey == "geometry_node"

\* The concrete types registered by #[typetag::serde] impl blocks.
Registry == {"Point3", "Rectangle"}

\* Box<dyn GeometryNode>: the concrete struct's members plus the tag.
to_value_node(node) ==
    LET body == IF node.type = "Point3" THEN to_value_Point3(node)
                ELSE to_value_Rectangle(node)
    IN  JObj([k \in DOMAIN body.m \cup {TagKey} |->
                IF k = TagKey THEN JStr(node.type) ELSE body.m[k]])

\* The orders in which a HashMap with keys S may hand out its entries: the
\* order is unspecified (RandomState), so any.
RECURSIVE IterOrders(_)
IterOrders(S) ==
    IF S = {} THEN {<<>>}
    ELSE UNION {{<<k>> \o t : t \in IterOrders(S \ {k})} : k \in S}

\* Serialize for HashMap into a serde_json::Map: the entries are visited in
\* the order ks and each is inserted under its key into the map built so far.
RECURSIVE serialize_map(_, _, _)
serialize_map(c, ks, acc) ==
    IF ks = <<>> THEN acc
    ELSE LET key == to_value_uuid(Head(ks)).s
             v == to_value_node(c[Head(ks)])
         IN  serialize_map(c, Tail(ks),
                           [k \in DOMAIN acc \cup {key} |-> IF k = key THEN v ELSE acc[k]])

\* serde_json::to_value(&NodeCollection), the HashMap iterating in order ks:
\* {"nodes": {<uuid>: <tagged node>}}.
to_value_iter(c, ks) ==
    JObj([f \in {"nodes"} |-> JObj(serialize_map(c, ks, EmptyMap))])

\* serde_json::to_value(&NodeCollection), in one of the HashMap's orders.
to_value(c) == to_value_iter(c, CHOOSE ks \in IterOrders(DOMAIN c) : TRUE)

Ok(v) == [ok |-> TRUE, v |-> v]
Err(e) == [ok |-> FALSE, err |-> e]

from_value_f64(j) == IF j.t = "num" THEN Ok(Fin(j.n)) ELSE Err("MalformedFields")

from_value_uuid(j) ==
    IF j.t = "str" /\ j.s \in Uuids THEN Ok(j.s) ELSE Err("MalformedFields")

\* #[derive(Deserialize)] struct Point3: every field required, others ignored.
from_value_Point3(j) ==
    IF /\ IsObj(j)
       /\ {"x", "y", "z", "uuid"} \subseteq DOMAIN j.m
       /\ \A k \in {"x", "y", "z"} : from_value_f64(j.m[k]).ok
       /\ from_value_uuid(j.m.uuid).ok
    THEN Ok([type |-> "Point3",
             x |-> from_value_f64(j.m.x).v, y |-> from_value_f64(j.m.y).v,
             z |-> from_value_f64(j.m.z).v, uuid |-> from_value_uuid(j.m.uuid).v])
    ELSE Err("MalformedFields")

\* #[derive(Deserialize)] struct Rectangle
from_value_Rectangle(j) ==
    IF /\ IsObj(j)
       /\ {"anchor", "width", "height", "uuid"} \subseteq DOMAIN j.m
       /\ from_value_Point3(j.m.anchor).ok
       /\ \A k \in {"width", "height"} : from_value_f64(j.m[k]).ok
       /\ from_value_uuid(j.m.uuid).ok
    THEN Ok([type |-> "Rectangle", anchor |-> from_value_Point3(j.m.anchor).v,
             width |-> from_value_f64(j.m.width).v,
             height |-> from_value_f64(j.m.height).v,
             uuid |-> from_value_uuid(j.m.uuid).v])
    ELSE Err("MalformedFields")

\* Box<dyn GeometryNode>: read the tag, then dispatch on the registry.
from_value_node(j) ==
    IF ~Has(j, TagKey) \/ j.m[TagKey].t # "str" THEN Err("MalformedFields")
    ELSE IF j.m[TagKey].s \notin Registry THEN Err("UnknownVariant")
    ELSE IF j.m[TagKey].s = "Point3" THEN from_value_Point3(j)
    ELSE from_value_Rectangle(j)

\* Ord on the keys of a snapshot: their rank in lexicographic order.
KeyOrder ==
    <<"a1", "a2", "anchor", "geometry_node", "height", "nodes",
      "u1", "u2", "uuid", "width", "x", "y", "z">>

SortedKeys(S) == SelectSeq(KeyOrder, LAMBDA k : k \in S)

\* A visit that drops the entries it cannot read and keeps the others.
RECURSIVE from_value_entries_lenient(_, _, _)
from_value_entries_lenient(m, ks, acc) ==
    IF ks = <<>> THEN Ok(acc)
    ELSE LET k == Head(ks)
             node == from_value_node(m[k])
         IN  from_value_entries_lenient(m, Tail(ks),
                IF node.ok THEN insert(acc, k, node.v) ELSE acc)

\* HashMap<Uuid, Box<dyn GeometryNode>>: the entries are visited in the
\* map's order; the first error ends the visit and is the result.
RECURSIVE from_value_entries(_, _, _)
from_value_entries(m, ks, acc) ==
    IF ks = <<>> THEN Ok(acc)
    ELSE LET k == Head(ks)
             key == from_value_uuid(JStr(k))
             node == from_value_node(m[k])
         IN  IF ~key.ok THEN key
             ELSE IF ~node.ok THEN node
             ELSE from_value_entries(m, Tail(ks), insert(acc, key.v, node.v))

\* serde_json::from_value::<NodeCollection>
from_value(j) ==
    IF Has(j, "nodes") /\ IsObj(j.m.nodes)
    THEN from_value_entries(j.m.nodes.m, SortedKeys(DOMAIN j.m.nodes.m), new)
    ELSE Err("MalformedFields")

(****************************** treediff **********************************)

Unchanged(path, v) == [kind |-> "Unchanged", path |-> path, v |-> v]
Modified(path, old, v) == [kind |-> "Modified", path |-> path, old |-> old, v |-> v]
Added(path, v) == [kind |-> "Added", path |-> path, v |-> v]
Removed(path, v) == [kind |-> "Removed", path |-> path, v |-> v]

\* Recorder::added / Recorder::removed for each key of ks, in order.
RECURSIVE RecordKeys(_, _, _, _)
RecordKeys(kind, j, cursor, ks) ==
    IF ks = <<>> THEN <<>>
    ELSE <<[kind |-> kind, path |-> Append(cursor, Head(ks)), v |-> j.m[Head(ks)]]>>
         \o RecordKeys(kind, j, cursor, Tail(ks))

\* A diff that descends into equal objects too, down to their leaves.
RECURSIVE diff_leafwise(_, _, _)
RECURSIVE DiffKeysLeafwise(_, _, _, _)
DiffKeysLeafwise(l, r, cursor, ks) ==
    IF ks = <<>> THEN <<>>
    ELSE diff_leafwise(l.m[Head(ks)], r.m[Head(ks)], Append(cursor, Head(ks)))
         \o DiffKeysLeafwise(l, r, cursor, Tail(ks))

diff_leafwise(l, r, cursor) ==
    IF ~IsObj(l) /\ ~IsObj(r)
    THEN IF l = r THEN <<Unchanged(cursor, l)>> ELSE <<Modified(cursor, l, r)>>
    ELSE IF ~(IsObj(l) /\ IsObj(r)) THEN <<Modified(cursor, l, r)>>
    ELSE DiffKeysLeafwise(l, r, cursor, SortedKeys(DOMAIN r.m \cap DOMAIN l.m))
         \o RecordKeys("Added", r, cursor, SortedKeys(DOMAIN r.m \ DOMAIN l.m))
         \o RecordKeys("Removed", l, cursor, SortedKeys(DOMAIN l.m \ DOMAIN r.m))

\* A diff that does not descend: two different objects are one Modified.
diff_wholesale(l, r, cursor) ==
    IF l = r THEN <<Unchanged(cursor, l)>> ELSE <<Modified(cursor, l, r)>>

\* treediff::diff into a Recorder: the recorded calls, in order.
RECURSIVE diff(_, _, _)
RECURSIVE DiffKeys(_, _, _, _)
DiffKeys(l, r, cursor, ks) ==
    IF ks = <<>> THEN <<>>
    ELSE diff(l.m[Head(ks)], r.m[Head(ks)], Append(cursor, Head(ks)))
         \o DiffKeys(l, r, cursor, Tail(ks))

diff(l, r, cursor) ==
    IF ~IsObj(l) /\ ~IsObj(r)
    THEN IF l = r THEN <<Unchanged(cursor, l)>> ELSE <<Modified(cursor, l, r)>>
    ELSE IF IsObj(l) /\ IsObj(r) /\ l = r THEN <<Unchanged(cursor, l)>>
    ELSE IF ~(IsObj(l) /\ IsObj(r)) THEN <<Modified(cursor, l, r)>>
    ELSE DiffKeys(l, r, cursor, SortedKeys(DOMAIN r.m \cap DOMAIN l.m))
         \o RecordKeys("Added", r, cursor, SortedKeys(DOMAIN r.m \ DOMAIN l.m))
         \o RecordKeys("Removed", l, cursor, SortedKeys(DOMAIN l.m \ DOMAIN r.m))

(******************************* main *************************************)

\* The fields a caller assigns through a typed mutable reference, and the
\* values it assigns.
FieldInputs(T) ==
    IF T = "Point3"
    THEN ({<<"x">>, <<"y">>, <<"z">>} \X F64In) \cup ({<<"uuid">>} \X NodeIds)
    ELSE ({<<"width">>, <<"height">>} \X F64In) \cup ({<<"uuid">>} \X NodeIds)
         \cup ({<<"anchor", f>> : f \in {"x", "y", "z"}} \X F64In)
         \cup ({<<"anchor", "uuid">>} \X NodeIds)

\* node with the field at path set to v: n.f = v, or rect.anchor.f = v.
Put(node, path, v) ==
    IF Len(path) = 1 THEN [node EXCEPT ![path[1]] = v]
    ELSE [node EXCEPT ![path[1]][path[2]] = v]

\* A snapshot as an outside writer may hand it back: entry k without its tag,
\* with an unregistered tag, without a required field, with a mistyped field,
\* or with another identifier inside; or with null for the map of nodes.
Tamper(j, k, how) ==
    LET e == j.m.nodes.m[k]
        e2 == CASE how = "no_tag" -> JObj([f \in DOMAIN e.m \ {TagKey} |-> e.m[f]])
                [] how = "unknown_tag" -> JObj([e.m EXCEPT ![TagKey] = JStr("Circle")])
                [] how = "missing_field" -> JObj([f \in DOMAIN e.m \ {"uuid"} |-> e.m[f]])
                [] how = "mistyped_field" -> JObj([e.m EXCEPT !["uuid"] = JNum(0)])
                [] OTHER -> JObj([e.m EXCEPT !["uuid"] =
                                    JStr(IF k = "u1" THEN "u2" ELSE "u1")])
    IN  JObj([f \in {"nodes"} |-> JObj([j.m.nodes.m EXCEPT ![k] = e2])])

TamperKinds == {"no_tag", "unknown_tag", "missing_field", "mistyped_field", "other_uuid"}

SnapshotInputs(j) ==
    {j, JObj([f \in {"nodes"} |-> JNull])}
    \cup {Tamper(j, k, how) : k \in DOMAIN j.m.nodes.m, how \in TamperKinds}

\* main() up to line 174: the rectangle pushed.
MainPushed == push(new, MainRect("a1", "u1"))

\* main() up to line 175: a rectangle and a point, both pushed.
MainBuilt == push(push(new, MainRect("a1", "u1")), NewPoint3("u2"))

\* main() up to line 181: the rectangle's anchor is a copy of the point.
MainAnchored == [MainBuilt EXCEPT !["u1"].anchor = NewPoint3("u2")]

\* The collection is new, or as main() has built it.
Init ==
    /\ nodes \in {new, MainPushed, MainBuilt, MainAnchored}
    /\ naive = None
    /\ optimized = None
    /\ d = <<>>
    /\ last = [op |-> "new"]
    /\ ops = 0
    /\ naive_src = None
    /\ optimized_src = None
    /\ pending = {}
    /\ log = {}
    /\ panicked = FALSE

Snapshots == <<naive, optimized, d, naive_src, optimized_src, log>>

\* A statement runs only in a process that has not panicked; call is what was
\* called and what it returned.
Called(call) ==
    /\ ~panicked
    /\ ops < MaxOps
    /\ ops' = ops + 1
    /\ last' = call
    /\ pending' = pending \cup {call.op}
    /\ UNCHANGED Snapshots

\* An operation on the collection, none of which panics.
Did(call) ==
    /\ Called(call)
    /\ UNCHANGED panicked

\* nodes.push(Box::new(node)); old is what HashMap::insert returns and push drops.
Push(node) ==
    /\ nodes' = push(nodes, node)
    /\ Did([op |-> "push", node |-> node,
            old |-> IF uuid(node) \in DOMAIN nodes THEN Some(nodes[uuid(node)]) ELSE None])

\* nodes.remove(&key)
Remove(key) ==
    /\ nodes' = remove(nodes, key).c
    /\ Did([op |-> "remove", key |-> key, ret |-> remove(nodes, key).ret])

\* nodes.try_get_typed::<T>(&key)
TryGetTyped(T, key) ==
    /\ nodes' = nodes
    /\ Did([op |-> "try_get_typed", T |-> T, key |-> key,
            ret |-> try_get_typed(nodes, T, key)])

\* if let Some(n) = nodes.try_get_typed_mut::<T>(&key) { n.f = v }, f a field
\* of the node or of a rectangle's anchor.
SetField(T, key, f, v) ==
    LET n == try_get_typed_mut(nodes, T, key)
    IN  /\ nodes' = IF n.some THEN [nodes EXCEPT ![key] = Put(n.v, f, v)]
                    ELSE nodes
        /\ Did([op |-> "set", T |-> T, key |-> key, ret |-> n])
    
\* if let Some(rect) = nodes.try_get_typed_mut::<Rectangle>(&id) { rect.anchor = pt }
SetAnchor(key, pt) ==
    LET n == try_get_typed_mut(nodes, "Rectangle", key)
    IN  /\ nodes' = IF n.some THEN [nodes EXCEPT ![key] = [n.v EXCEPT !.anchor = pt]]
                    ELSE nodes
        /\ Did([op |-> "set_anchor", T |-> "Rectangle", key |-> key, ret |-> n])
    
\* MutPoint on anchors held by reference: every anchor that is a copy of the
\* point moves with it.
MutPointShared(key, xy) ==
    LET n == try_get_typed_mut(nodes, "Point3", key)
        moved(node) ==
            IF node.type = "Rectangle" /\ node.anchor.uuid = n.v.uuid
            THEN [node EXCEPT !.anchor.x = xy[1], !.anchor.y = xy[2]]
            ELSE node
    IN  /\ nodes' = IF n.some
                    THEN [k \in DOMAIN nodes |->
                            IF k = key THEN [n.v EXCEPT !.x = xy[1], !.y = xy[2]]
                            ELSE moved(nodes[k])]
                    ELSE nodes
        /\ Did([op |-> "set_xy", T |-> "Point3", key |-> key, ret |-> n])
    
\* if let Some(pt) = deser.try_get_typed_mut::<Point3>(&pt_id) { pt.x = ..; pt.y = ..; }
MutPoint(key, xy) ==
    LET n == try_get_typed_mut(nodes, "Point3", key)
    IN  /\ nodes' = IF n.some
                    THEN [nodes EXCEPT ![key] = [n.v EXCEPT !.x = xy[1], !.y = xy[2]]]
                    ELSE nodes
        /\ Did([op |-> "set_xy", T |-> "Point3", key |-> key, ret |-> n])
    
\* let mut deser: NodeCollection = serde_json::from_value(j).unwrap(): the
\* collection read is the one operated on from then on. On Err no collection
\* is bound and unwrap() panics: no later statement runs.
Deserialize(j) ==
    /\ nodes' = IF from_value(j).ok THEN from_value(j).v ELSE nodes
    /\ panicked' = ~from_value(j).ok
    /\ Called([op |-> "from_value", input |-> j, ret |-> from_value(j)])

\* let dv = serde_json::to_value(..).unwrap(); let mut d = Recorder::default();
\* diff(&optimized, &dv, &mut d): the new snapshot is diffed against the one
\* taken before it (the first snapshot has none).  The HashMap hands out its
\* entries in whichever order.
Snapshot ==
    /\ ~panicked
    /\ naive' = optimized
    /\ naive_src' = optimized_src
    /\ \E ks \in IterOrders(DOMAIN nodes) :
        /\ optimized' = Some(to_value_iter(nodes, ks))
        /\ d' = IF optimized.some
                THEN diff(optimized.v, to_value_iter(nodes, ks), <<>>) ELSE <<>>
    /\ optimized_src' = Some(nodes)
    /\ last' = [op |-> "to_value"]
    /\ log' = pending
    /\ pending' = {}
    /\ UNCHANGED <<nodes, ops, panicked>>

\* The collection's operations, and snapshots read back from outside.
Next ==
    \/ \E node \in NodeInputs : Push(node)
    \/ \E key \in NodeIds : Remove(key)
    \/ \E T \in Types, key \in NodeIds : TryGetTyped(T, key)
    \/ \E T \in Types, key \in NodeIds : \E fv \in FieldInputs(T) :
            SetField(T, key, fv[1], fv[2])
    \/ \E j \in SnapshotInputs(to_value(nodes)) : Deserialize(j)

Spec == Init /\ [][Next]_vars

\* main(): operations on the collection between snapshots that are diffed.
NextDiff ==
    \/ \E node \in NodeInputs : Push(node)
    \/ \E key \in NodeIds : Remove(key)
    \/ \E T \in Types, key \in NodeIds : \E fv \in FieldInputs(T) :
            SetField(T, key, fv[1], fv[2])
    \/ \E key \in NodeIds, pt \in PointInputs : SetAnchor(key, pt)
    \/ \E key \in NodeIds, xy \in XYIn : MutPoint(key, xy)
    \/ optimized.some /\ Deserialize(optimized.v)
    \/ Snapshot

SpecDiff == Init /\ [][NextDiff]_vars

(************************* the collection's contract **********************)

\* C1: every key of the nodes map equals the uuid() of the node stored under
\* it, in every state reached by push, remove, field mutation through
\* try_get_typed_mut and deserialization of a snapshot that deserializes.
C1_KeyEqualsUuid == \A k \in DOMAIN nodes : uuid(nodes[k]) = k

\* C2: try_get_typed::<T>(id) and try_get_typed_mut::<T>(id) return a node
\* exactly when id is a key and the node stored there is concretely T, and
\* then the node stored at id; otherwise None, never a node of the other type.
C2_TypeSafeNarrowing ==
    /\ \A T \in Types, id \in Uuids :
        LET r == try_get_typed(nodes, T, id)
            m == try_get_typed_mut(nodes, T, id)
        IN  /\ r.some <=> (id \in DOMAIN nodes /\ nodes[id].type = T)
            /\ r.some => r.v = nodes[id]
            /\ ~r.some => r = None
            /\ m = r
    /\ last.op = "try_get_typed" =>
        /\ last.ret.some <=> (last.key \in DOMAIN nodes /\ nodes[last.key].type = last.T)
        /\ last.ret.some => last.ret.v = nodes[last.key]
    /\ last.op = "set" =>
        /\ last.ret.some <=> (last.key \in DOMAIN nodes /\ nodes[last.key].type = last.T)
        /\ last.ret.some => last.ret.v.type = last.T

\* A typed lookup of a stored node under the other concrete type found nothing.
C2_Witness ==
    /\ last.op = "try_get_typed"
    /\ last.key \in DOMAIN nodes
    /\ nodes[last.key].type # last.T
    /\ last.ret = None

\* C3: push(node) stores exactly the pushed node under node.uuid(); over an
\* existing entry the size is unchanged and nothing of the old node remains,
\* otherwise the size grows by one; every other entry is unchanged.
C3_PushOverwrites ==
    [][(last'.op = "push" /\ ops' = ops + 1) =>
        LET n == last'.node
            k == uuid(n)
        IN  /\ DOMAIN nodes' = DOMAIN nodes \cup {k}
            /\ nodes'[k] = n
            /\ \A x \in DOMAIN nodes \ {k} : nodes'[x] = nodes[x]
            /\ Cardinality(DOMAIN nodes') =
                 Cardinality(DOMAIN nodes) + (IF k \in DOMAIN nodes THEN 0 ELSE 1)]_vars

\* A push replaced a stored node of the other concrete type.
C3_Witness ==
    /\ last.op = "push"
    /\ last.old.some
    /\ last.old.v.type # last.node.type
    /\ nodes[uuid(last.node)] = last.node

\* C4: deserialize(serialize(collection)) succeeds and yields the same
\* identifiers, concrete types and field values, and serializes again to the
\* same snapshot.
C4_RoundTrip ==
    LET s == to_value(nodes)
        r == from_value(s)
    IN  /\ r.ok
        /\ r.v = nodes
        /\ to_value(r.v) = s

\* An entry whose tag names no registered concrete type.
UnknownVariantEntry(e) ==
    /\ Has(e, TagKey)
    /\ e.m[TagKey].t = "str"
    /\ e.m[TagKey].s \notin Registry

\* A JSON object lacking a member of a Point3, or holding one of another kind.
MalformedPoint3(o) ==
    \/ \E f \in {"x", "y", "z"} : f \notin DOMAIN o.m \/ o.m[f].t # "num"
    \/ "uuid" \notin DOMAIN o.m \/ o.m.uuid.t # "str"

MalformedRectangle(o) ==
    \/ \E f \in {"width", "height"} : f \notin DOMAIN o.m \/ o.m[f].t # "num"
    \/ "uuid" \notin DOMAIN o.m \/ o.m.uuid.t # "str"
    \/ "anchor" \notin DOMAIN o.m \/ ~IsObj(o.m.anchor) \/ MalformedPoint3(o.m.anchor)

\* An entry with a recognized tag and a required field missing or mistyped.
MalformedFieldsEntry(e) ==
    /\ Has(e, TagKey)
    /\ e.m[TagKey].t = "str"
    /\ \/ e.m[TagKey].s = "Point3" /\ MalformedPoint3(e)
       \/ e.m[TagKey].s = "Rectangle" /\ MalformedRectangle(e)

BadEntry(e) == UnknownVariantEntry(e) \/ MalformedFieldsEntry(e)

\* C5: deserializing a snapshot with at least one entry of an unregistered
\* tag, or of a recognized tag with a field missing or mistyped, returns an
\* error and no collection, whatever the other entries and wherever the bad
\* one is; the collection operated on is not changed (main() unwraps the
\* error and panics).
C5_AtomicFailure ==
    [][(/\ last'.op = "from_value"
        /\ ops' = ops + 1
        /\ IsObj(last'.input.m.nodes)
        /\ \E k \in DOMAIN last'.input.m.nodes.m : BadEntry(last'.input.m.nodes.m[k])) =>
        /\ ~last'.ret.ok
        /\ DOMAIN last'.ret = {"ok", "err"}
        /\ last'.ret.err \in {"UnknownVariant", "MalformedFields"}
        /\ nodes' = nodes
        /\ panicked']_vars

\* A snapshot whose first entry is valid and whose second is not was refused.
C5_Witness ==
    /\ last.op = "from_value"
    /\ ~last.ret.ok
    /\ panicked
    /\ IsObj(last.input.m.nodes)
    /\ DOMAIN last.input.m.nodes.m = {"u1", "u2"}
    /\ ~BadEntry(last.input.m.nodes.m["u1"])
    /\ from_value_node(last.input.m.nodes.m["u1"]).ok
    /\ BadEntry(last.input.m.nodes.m["u2"])
    /\ nodes # new

(***************************** the differ *********************************)

Calls == {d[i] : i \in 1..Len(d)}
ByKind(kind) == {c \in Calls : c.kind = kind}
Diffed == naive.some /\ optimized.some

\* The entry of node k in a snapshot.
Entry(j, k) == j.m.nodes.m[k]

\* The paths of a snapshot's scalars.
RECURSIVE LeafPaths(_, _)
LeafPaths(j, cursor) ==
    IF IsObj(j)
    THEN UNION {LeafPaths(j.m[k], Append(cursor, k)) : k \in DOMAIN j.m}
    ELSE {cursor}

\* The scalar fields of a node, by path, and their values.
ScalarPaths(node) ==
    IF node.type = "Point3" THEN {<<"x">>, <<"y">>, <<"z">>, <<"uuid">>}
    ELSE {<<"width">>, <<"height">>, <<"uuid">>}
         \cup {<<"anchor", f>> : f \in {"x", "y", "z", "uuid"}}

AllScalarPaths == ScalarPaths(NewPoint3("u1")) \cup ScalarPaths(NewRectangle("a1", "u1"))

Get(node, path) ==
    IF Len(path) = 1 THEN node[path[1]] ELSE node[path[1]][path[2]]

\* The serialized form of the scalar at path.
Ser(node, path) ==
    IF path[Len(path)] = "uuid" THEN JStr(Get(node, path))
    ELSE IF Get(node, path)[1] = "fin" THEN JNum(Get(node, path)[2]) ELSE JNull

ChangedPaths(n1, n2) == {p \in ScalarPaths(n1) : Get(n1, p) # Get(n2, p)}

\* Collections c1 and c2 differ in the scalar fields P of node id and in
\* nothing else.
FieldsChanged(c1, c2, id, P) ==
    /\ DOMAIN c1 = DOMAIN c2
    /\ id \in DOMAIN c1
    /\ c1[id].type = c2[id].type
    /\ \A k \in DOMAIN c1 \ {id} : c1[k] = c2[k]
    /\ ChangedPaths(c1[id], c2[id]) = P

\* C6 as stated: the diff of a snapshot against itself is made of Unchanged
\* records of leaf scalars only, and has no record of a composite node.
C6_SelfDiffIsLeaves ==
    (Diffed /\ naive.v = optimized.v) =>
        \A c \in Calls : c.kind = "Unchanged" /\ ~IsObj(c.v)

\* C6: the diff of a snapshot against itself is exactly one record, Unchanged,
\* at the root path, carrying the whole snapshot; no Added, Removed or
\* Modified record.
C6_SelfDiffIsOneUnchanged ==
    (Diffed /\ naive.v = optimized.v) => d = <<Unchanged(<<>>, naive.v)>>

\* A collection holding nodes was snapshotted twice and diffed.
C6_Witness ==
    /\ Diffed
    /\ naive.v = optimized.v
    /\ DOMAIN naive_src.v = {"u1", "u2"}
    /\ d = <<Unchanged(<<>>, to_value(nodes))>>

\* C7 as stated: one scalar field of node id was set between the snapshots:
\* exactly one Modified record, at the field's path, old and new the two
\* values; an Unchanged record for every other leaf; no Added or Removed.
C7_OneModifiedRestLeaves ==
    Diffed =>
        \A id \in NodeIds, p \in AllScalarPaths :
            (log = {"set"} /\ FieldsChanged(naive_src.v, optimized_src.v, id, {p})) =>
                /\ ByKind("Modified") =
                     {Modified(<<"nodes", id>> \o p, Ser(naive_src.v[id], p),
                               Ser(optimized_src.v[id], p))}
                /\ \A lp \in LeafPaths(naive.v, <<>>) \ {<<"nodes", id>> \o p} :
                     \E c \in ByKind("Unchanged") : c.path = lp
                /\ ByKind("Added") = {} /\ ByKind("Removed") = {}

\* The records of a diff in which the scalar at path p of node id went from
\* j1 to j2: the siblings of every node on the way are Unchanged as a whole.
OneFieldRecords(s1, id, p, j1, j2) ==
    {Modified(<<"nodes", id>> \o p, j1, j2)}
    \cup {Unchanged(<<"nodes", k>>, Entry(s1, k)) : k \in DOMAIN s1.m.nodes.m \ {id}}
    \cup {Unchanged(<<"nodes", id, f>>, Entry(s1, id).m[f]) :
            f \in DOMAIN Entry(s1, id).m \ {p[1]}}
    \cup (IF Len(p) = 2
          THEN {Unchanged(<<"nodes", id, p[1], f>>, Entry(s1, id).m[p[1]].m[f]) :
                  f \in DOMAIN Entry(s1, id).m[p[1]].m \ {p[2]}}
          ELSE {})

\* C7: one scalar field of node id was set between the snapshots.  When its
\* serialized value changed, the diff is exactly: one Modified record at
\* (nodes, id, field path) with the old and new serialized values, one
\* Unchanged record for each other member of the objects on that path (a
\* sibling field, the untouched anchor, each other node as a whole), and no
\* Added or Removed.  When both values serialize alike (two non-finite f64),
\* the snapshots are equal and the diff is one Unchanged record at the root.
C7_OneModifiedRestUnchanged ==
    Diffed =>
        \A id \in NodeIds, p \in AllScalarPaths :
            (log = {"set"} /\ FieldsChanged(naive_src.v, optimized_src.v, id, {p})) =>
                LET j1 == Ser(naive_src.v[id], p)
                    j2 == Ser(optimized_src.v[id], p)
                IN  IF j1 = j2 THEN d = <<Unchanged(<<>>, naive.v)>>
                    ELSE /\ Calls = OneFieldRecords(naive.v, id, p, j1, j2)
                         /\ Len(d) = Cardinality(Calls)

\* A coordinate of the anchor of main()'s rectangle was set between two
\* snapshots of main()'s collection.
C7_Witness ==
    /\ Diffed
    /\ naive_src.v = MainBuilt
    /\ log = {"set"}
    /\ FieldsChanged(naive_src.v, optimized_src.v, "u1", {<<"anchor", "x">>})
    /\ Modified(<<"nodes", "u1", "anchor", "x">>, JNum(0), JNum(NewX)) \in Calls
    /\ Unchanged(<<"nodes", "u1", "anchor", "uuid">>, JStr("a1")) \in Calls
    /\ Unchanged(<<"nodes", "u1", "width">>, JNum(RectWidth)) \in Calls
    /\ Cardinality(ByKind("Modified")) = 1
    /\ Cardinality(ByKind("Unchanged")) = 8

\* The scenario of main(): before, the collection holds rectangle r as main
\* builds it (its anchor a new point of identifier a) and a new point p;
\* between the snapshots r's anchor was assigned a copy of p.
AnchorCopied(r, p, a) ==
    /\ Diffed
    /\ log = {"set_anchor"}
    /\ r # p
    /\ DOMAIN naive_src.v = {r, p}
    /\ naive_src.v[r] = MainRect(a, r)
    /\ naive_src.v[p] = NewPoint3(p)
    /\ optimized_src.v[r].anchor = NewPoint3(p)

\* An assignment through the typed mutable reference to node key leaves every
\* other entry as it was.
OnlyKeyChanges(opname) ==
    (last'.op = opname /\ ops' = ops + 1) =>
        /\ DOMAIN nodes' = DOMAIN nodes
        /\ \A k \in DOMAIN nodes \ {last'.key} : nodes'[k] = nodes[k]

\* C8 as stated: the diff has one or more Modified records, each under r's
\* anchor with old the original anchor's coordinate and new p's coordinate; no
\* Added or Removed; r's width, height and uuid and p's entry are unchanged.
C8_ModifiedAreCoordinates ==
    \A r \in NodeIds, p \in NodeIds, a \in AnchorIds :
        AnchorCopied(r, p, a) =>
            /\ ByKind("Modified") # {}
            /\ \A c \in ByKind("Modified") :
                \E f \in {"x", "y", "z"} :
                    /\ c.path = <<"nodes", r, "anchor", f>>
                    /\ c.old = to_value_f64(naive_src.v[r].anchor[f])
                    /\ c.v = to_value_f64(naive_src.v[p][f])
            /\ ByKind("Added") = {} /\ ByKind("Removed") = {}
            /\ Entry(naive.v, p) = Entry(optimized.v, p)

\* The records of the diff of main()'s first two snapshots.
AnchorCopyRecords(r, p, a) ==
    {Modified(<<"nodes", r, "anchor", "uuid">>, JStr(a), JStr(p))}
    \cup {Unchanged(<<"nodes", r, "anchor", f>>, JNum(0)) : f \in {"x", "y", "z"}}
    \cup {Unchanged(<<"nodes", r, "width">>, JNum(RectWidth)),
          Unchanged(<<"nodes", r, "height">>, JNum(RectHeight)),
          Unchanged(<<"nodes", r, "uuid">>, JStr(r)),
          Unchanged(<<"nodes", r, TagKey>>, JStr("Rectangle")),
          Unchanged(<<"nodes", p>>,
                    JObj([geometry_node |-> JStr("Point3"), x |-> JNum(0),
                          y |-> JNum(0), z |-> JNum(0), uuid |-> JStr(p)]))}

\* C8: in that scenario the diff has exactly one Modified record, at
\* (nodes, r, anchor, uuid), old the original anchor's identifier and new p's;
\* the anchor's x, y and z (at the origin on both sides) are Unchanged, as are
\* r's width, height, uuid and tag; p's entry is one Unchanged record; there is
\* no Added or Removed, and the assignment changed no entry but r's.
C8_AnchorCopyDiff ==
    /\ [][OnlyKeyChanges("set_anchor")]_vars
    /\ [](\A r \in NodeIds, p \in NodeIds, a \in AnchorIds :
            AnchorCopied(r, p, a) =>
                /\ Calls = AnchorCopyRecords(r, p, a)
                /\ Len(d) = 9
                /\ Entry(naive.v, p) = Entry(optimized.v, p))

\* main() after its first diff.
C8_Witness ==
    /\ AnchorCopied("u1", "u2", "a1")
    /\ nodes = MainAnchored
    /\ Cardinality(ByKind("Modified")) = 1

\* The second scenario of main(): the earlier snapshot holds point p and
\* rectangle r whose anchor is a copy of p, and was read back by from_value;
\* then p's x and y were both set to other values.
PointMoved(r, p) ==
    /\ Diffed
    /\ log = {"from_value", "set_xy"}
    /\ r # p
    /\ {r, p} \subseteq DOMAIN naive_src.v
    /\ naive_src.v[p].type = "Point3"
    /\ naive_src.v[r].type = "Rectangle"
    /\ naive_src.v[r].anchor = naive_src.v[p]
    /\ from_value(naive.v) = Ok(naive_src.v)
    /\ optimized_src.v[p].x # naive_src.v[p].x
    /\ optimized_src.v[p].y # naive_src.v[p].y

\* C9: the diff has exactly two Modified records, at (nodes, p, x) and
\* (nodes, p, y), with the old and new values; everything else is Unchanged
\* (p's other members, and r as a whole: its anchor keeps the copied values);
\* no Added or Removed; mutating p changes no entry but p's.
C9_PointMutationDiff ==
    /\ [][OnlyKeyChanges("set_xy")]_vars
    /\ [](\A r \in NodeIds, p \in NodeIds :
            PointMoved(r, p) =>
                /\ ByKind("Modified") =
                     {Modified(<<"nodes", p, f>>, to_value_f64(naive_src.v[p][f]),
                               to_value_f64(optimized_src.v[p][f])) : f \in {"x", "y"}}
                /\ Cardinality(ByKind("Modified")) = 2
                /\ ByKind("Unchanged") =
                     {Unchanged(<<"nodes", p, f>>, Entry(naive.v, p).m[f]) :
                        f \in {"z", "uuid", TagKey}}
                     \cup {Unchanged(<<"nodes", r>>, Entry(naive.v, r))}
                /\ ByKind("Added") = {} /\ ByKind("Removed") = {}
                /\ Len(d) = 6
                /\ optimized_src.v[r] = naive_src.v[r]
                /\ Entry(optimized.v, r).m.anchor = Entry(naive.v, r).m.anchor)

\* main() after its second diff.
C9_Witness ==
    /\ PointMoved("u1", "u2")
    /\ nodes = [MainAnchored EXCEPT !["u2"].x = Fin(NewX), !["u2"].y = Fin(NewY)]
    /\ Cardinality(ByKind("Modified")) = 2

\* remove(key) returns the node stored at key and deletes that entry only; on
\* an absent key it returns None and changes nothing.
RemoveStep ==
    (last'.op = "remove" /\ ops' = ops + 1) =>
        LET key == last'.key
        IN  IF key \in DOMAIN nodes
            THEN /\ last'.ret = Some(nodes[key])
                 /\ DOMAIN nodes' = DOMAIN nodes \ {key}
                 /\ \A k \in DOMAIN nodes' : nodes'[k] = nodes[k]
            ELSE /\ last'.ret = None
                 /\ nodes' = nodes

\* The snapshots differ by pushes and removes only.
PushedAndRemoved ==
    /\ Diffed
    /\ log \subseteq {"push", "remove"}
    /\ log # {}

\* The Added or Removed records lying at or below the entry of identifier k.
AddedRemovedUnder(k) ==
    {c \in Calls : /\ c.kind \in {"Added", "Removed"}
                   /\ Len(c.path) >= 2
                   /\ SubSeq(c.path, 1, 2) = <<"nodes", k>>}

\* C10 as stated: after pushes and removes the diff has a Removed record with
\* the entry for exactly the identifiers only in the earlier snapshot, an
\* Added record for exactly those only in the later one, and neither Added
\* nor Removed for an identifier present in both.
C10_NoneForKeptIdentifiers ==
    PushedAndRemoved =>
        LET before == naive.v.m.nodes.m
            after == optimized.v.m.nodes.m
        IN  /\ \A k \in DOMAIN before \ DOMAIN after :
                AddedRemovedUnder(k) = {Removed(<<"nodes", k>>, before[k])}
            /\ \A k \in DOMAIN after \ DOMAIN before :
                AddedRemovedUnder(k) = {Added(<<"nodes", k>>, after[k])}
            /\ \A k \in DOMAIN before \cap DOMAIN after :
                AddedRemovedUnder(k) = {}

\* The keys of the snapshots are the identifiers of the collections. The diff
\* has a Removed record at (nodes, k), carrying the entry, for exactly the
\* keys only in the earlier snapshot and an Added record at (nodes, k) for
\* exactly the keys only in the later one. For a key in both there is no
\* record at (nodes, k) of either kind; below it there are Removed records
\* for the members only the earlier entry has and Added records for the
\* members only the later entry has, which are none unless the node was
\* replaced by one of the other type.
AddedRemovedByKey ==
    Diffed =>
        LET before == naive.v.m.nodes.m
            after == optimized.v.m.nodes.m
            kept == DOMAIN before \cap DOMAIN after
        IN  /\ DOMAIN before = DOMAIN naive_src.v
            /\ DOMAIN after = DOMAIN optimized_src.v
            /\ \A k \in DOMAIN before \ DOMAIN after :
                AddedRemovedUnder(k) = {Removed(<<"nodes", k>>, before[k])}
            /\ \A k \in DOMAIN after \ DOMAIN before :
                AddedRemovedUnder(k) = {Added(<<"nodes", k>>, after[k])}
            /\ \A k \in kept :
                /\ AddedRemovedUnder(k) =
                     {Removed(<<"nodes", k, f>>, before[k].m[f]) :
                        f \in DOMAIN before[k].m \ DOMAIN after[k].m}
                     \cup {Added(<<"nodes", k, f>>, after[k].m[f]) :
                        f \in DOMAIN after[k].m \ DOMAIN before[k].m}
                /\ naive_src.v[k].type = optimized_src.v[k].type
                     => AddedRemovedUnder(k) = {}
            /\ ByKind("Added") \cup ByKind("Removed") =
                 UNION {AddedRemovedUnder(k) : k \in DOMAIN before \cup DOMAIN after}
            /\ Cardinality({i \in 1..Len(d) : d[i].kind \in {"Added", "Removed"}}) =
                 Cardinality(ByKind("Added") \cup ByKind("Removed"))

\* The snapshot taken is the same in whichever order the HashMap hands out
\* the entries, and the differ reports the entries in the order of their keys.
IterationOrderIrrelevant ==
    /\ optimized.some =>
        \A ks \in IterOrders(DOMAIN optimized_src.v) :
            optimized.v = to_value_iter(optimized_src.v, ks)
    /\ Diffed =>
        \A ks1 \in IterOrders(DOMAIN naive_src.v), ks2 \in IterOrders(DOMAIN optimized_src.v) :
            d = diff(to_value_iter(naive_src.v, ks1), to_value_iter(optimized_src.v, ks2), <<>>)

\* Two pushes in a row, of a then of b.  With different identifiers the
\* collection and its snapshot are those of pushing b then a onto the
\* collection as it was before; with the same identifier b is stored, so
\* pushing in the other order would leave a instead.
PushPushStep ==
    (last.op = "push" /\ last'.op = "push" /\ ops' = ops + 1) =>
        LET a == last.node
            b == last'.node
            before == IF last.old.some
                      THEN [nodes EXCEPT ![uuid(a)] = last.old.v]
                      ELSE [k \in DOMAIN nodes \ {uuid(a)} |-> nodes[k]]
            swapped == push(push(before, b), a)
        IN  IF uuid(a) # uuid(b)
            THEN /\ nodes' = swapped
                 /\ \A ks1 \in IterOrders(DOMAIN nodes'), ks2 \in IterOrders(DOMAIN swapped) :
                        to_value_iter(nodes', ks1) = to_value_iter(swapped, ks2)
            ELSE /\ nodes'[uuid(b)] = b
                 /\ swapped[uuid(a)] = a
                 /\ a # b => /\ nodes' # swapped
                             /\ to_value(nodes') # to_value(swapped)

\* C10: remove(key) on a present key returns the stored node and deletes that
\* entry only, on an absent key returns None and changes nothing. The diff of
\* two snapshots has a Removed record at (nodes, k) with the entry for exactly
\* the keys only in the earlier one, an Added record at (nodes, k) for exactly
\* the keys only in the later one, none at (nodes, k) for a key in both, and
\* below a key in both only for the members one entry has and the other lacks
\* (a node replaced by one of the other type). Pushes of nodes of different
\* identifiers give the same collection and snapshot in either order, and
\* the snapshot and the diff are the same in whichever order the HashMap
\* iterates; of two pushes under one identifier the later one stays.
C10_RemovedAndAdded ==
    /\ [][RemoveStep]_vars
    /\ [][PushPushStep]_vars
    /\ [](AddedRemovedByKey /\ IterationOrderIrrelevant)

\* Between two snapshots the rectangle main() pushed first was removed and a
\* point pushed: one key only in the earlier snapshot, one only in the later.
C10_Witness ==
    /\ PushedAndRemoved
    /\ log = {"push", "remove"}
    /\ naive_src.v = MainPushed
    /\ optimized_src.v = push(new, NewPoint3("u2"))
    /\ d = <<Added(<<"nodes", "u2">>, to_value_node(NewPoint3("u2"))),
             Removed(<<"nodes", "u1">>, to_value_node(MainRect("a1", "u1")))>>

====
